---- MODULE Spec2Model ----
(***************************************************************************)
(* Model of topf/topf.py: the UnionFind class, the PersistenceDiagram      *)
(* wrapper and PersistenceTransformer.fit_transform, the superlevel-set    *)
(* sweep that turns (x, y) samples into (x, persistence) pairs.            *)
(*                                                                         *)
(* Arrays are functions over 0..N-1, as the code indexes them.  A numpy    *)
(* array is a record [shape, rows]; rows[i] = <<x_i, y_i>>, so the code's  *)
(* a[i, 0] is rows[i][1] and a[i, 1] is rows[i][2].  Python's None is the  *)
(* empty tuple and a present value v is <<v>>.                             *)
(***************************************************************************)
EXTENDS Integers, Sequences, FiniteSets

VARIABLES
    self_calculate_persistence_diagram, \* self._calculate_persistence_diagram
    self_n_peaks,                       \* self._n_peaks (None or <<k>>)
    self_persistence_diagram,           \* self._persistence_diagram
    pc,              \* position of the caller / of the running fit_transform
    a,               \* the argument of the running (or last) call, as array
    indices,         \* local: the sweep order
    b,               \* local: the diagram buffer (None or <<pairs>>)
    parent,          \* local: uf.parent
    persistence,     \* local: the persistence array
    pos,             \* local: number of indices the for loop has consumed
    warnings,        \* logging.warn records emitted by the running call
    result,          \* value returned by the last call (None or <<rows>>)
    error,           \* exception raised by the last call ("None" if none)
    calls            \* number of fit_transform calls started on the instance

vars == <<self_calculate_persistence_diagram, self_n_peaks,
          self_persistence_diagram, pc, a, indices, b, parent, persistence,
          pos, warnings, result, error, calls>>

\* ------------------------------------------------------------------ bounds
MaxN == 4          \* longest sample sequence of the main specification
MaxY == 3          \* sample values are 0..MaxY
MaxReuseN == 3     \* longest sample sequence when an instance is reused
MaxReuseY == 1     \* sample values of a reused instance are 0..MaxReuseY
MaxCalls == 2      \* calls made on a reused instance
MaxDistinctN == 5  \* longest sequence of pairwise distinct values
MaxVertices == 4   \* largest UnionFind instance used on its own

\* ----------------------------------------------------------- Python values
None == << >>
Some(v) == <<v>>

\* index set of an array of n elements
Range0(n) == 0 .. (n - 1)

\* len() of a function over 0..n-1
Length(f) == Cardinality(DOMAIN f)

\* list[i] of Python: negative indices count from the end, IndexError outside
PyIndexOK(list, i) == (0 - Length(list)) <= i /\ i < Length(list)
PyIndex(list, i) == IF i < 0 THEN list[i + Length(list)] ELSE list[i]

\* --------------------------------------------------------------- UnionFind
\* UnionFind.__init__: every vertex is its own parent
UnionFind(num_vertices) == [x \in Range0(num_vertices) |-> x]

\* UnionFind.find, the value it returns
RECURSIVE find(_, _)
find(par, u) == IF par[u] = u THEN u ELSE find(par, par[u])

\* UnionFind.find, the parent map it leaves (path collapse)
RECURSIVE find_parent(_, _)
find_parent(par, u) ==
    IF par[u] = u
    THEN par
    ELSE LET collapsed == find_parent(par, par[u])
         IN  [collapsed EXCEPT ![u] = find(par, par[u])]

\* variant of merge: the representative of v is attached below that of u
merge_reversed(par, u, v) ==
    IF u # v
    THEN LET p1 == find_parent(par, v)
             rv == find(par, v)
             p2 == find_parent(p1, u)
             ru == find(p1, u)
         IN  [p2 EXCEPT ![rv] = ru]
    ELSE par

\* UnionFind.merge: the right-hand side find(v) runs before the target find(u)
merge(par, u, v) ==
    IF u # v
    THEN LET p1 == find_parent(par, v)
             rv == find(par, v)
             p2 == find_parent(p1, u)
             ru == find(p1, u)
         IN  [p2 EXCEPT ![ru] = rv]
    ELSE par

\* ------------------------------------------------------ PersistenceDiagram
\* PersistenceDiagram.total_persistence for the default p = 1.0
RECURSIVE SumTo(_, _)
SumTo(f, n) == IF n = 0 THEN 0 ELSE f[n - 1] + SumTo(f, n - 1)

total_persistence(pairs) ==
    LET persistence_values == [i \in DOMAIN pairs |-> pairs[i][1] - pairs[i][2]]
    IN  SumTo(persistence_values, Length(pairs))

\* ------------------------------------------------------------ array access
\* a[:, 1] of a valid array
Col1(arr) == [i \in DOMAIN arr.rows |-> arr.rows[i][2]]
\* a[:, 0] of a valid array
Col0(arr) == [i \in DOMAIN arr.rows |-> arr.rows[i][1]]

\* the shape test of fit_transform
UnexpectedArrayFormat(arr) ==
    IF Len(arr.shape) # 2 THEN TRUE ELSE arr.shape[2] # 2

\* np.argsort(-y, kind='stable'): descending y, ties in ascending index
ArgsortRank(y, i) ==
    Cardinality({j \in DOMAIN y : y[j] > y[i] \/ (y[j] = y[i] /\ j < i)})

argsort_desc_stable(y) ==
    [r \in DOMAIN y |-> CHOOSE i \in DOMAIN y : ArgsortRank(y, i) = r]

\* sorted(persistence)[::-1]: the values in descending order
sorted_reversed(p) ==
    LET rank(i) == Cardinality({j \in DOMAIN p :
                                  p[j] > p[i] \/ (p[j] = p[i] /\ j < i)})
    IN  [r \in DOMAIN p |-> p[CHOOSE i \in DOMAIN p : rank(i) = r]]

\* the diagram buffer b: (y, y) per sample when the diagram is requested
init_b(calc, y) ==
    IF calc THEN Some([i \in DOMAIN y |-> <<y[i], y[i]>>]) ELSE None

\* state of the sweep before the first index
init_sweep(calc, y) ==
    [parent |-> UnionFind(Length(y)),
     persistence |-> [i \in DOMAIN y |-> 0],
     b |-> init_b(calc, y)]

\* ----------------------------------------------------------------- sweep
\* variant of Branch: the heights of the two neighbours are compared instead
\* of the heights of their representatives
Branch_compare_neighbours(y, par, index) ==
    LET num_vertices == Length(y)
        left_index == index - 1
        right_index == index + 1
    IN  IF ~(left_index >= 0 /\ right_index <= num_vertices - 1)
        THEN "boundary"
        ELSE IF y[left_index] >= y[index] /\ y[index] <= y[right_index]
        THEN IF y[left_index] < y[right_index]
             THEN "saddle_left" ELSE "saddle_right"
        ELSE IF ~(y[index] > y[left_index] /\ y[index] > y[right_index])
        THEN IF y[left_index] < y[right_index]
             THEN "regular_right" ELSE "regular_left"
        ELSE "maximum"

\* variant of Branch: the saddle test is strict, so a sample that equals a
\* neighbour is never a saddle
Branch_strict_saddle(y, par, index) ==
    LET num_vertices == Length(y)
        left_index == index - 1
        right_index == index + 1
    IN  IF ~(left_index >= 0 /\ right_index <= num_vertices - 1)
        THEN "boundary"
        ELSE IF y[left_index] > y[index] /\ y[index] < y[right_index]
        THEN IF y[find(par, left_index)] < y[find(par, right_index)]
             THEN "saddle_left" ELSE "saddle_right"
        ELSE IF ~(y[index] > y[left_index] /\ y[index] > y[right_index])
        THEN IF y[find(par, left_index)] < y[find(par, right_index)]
             THEN "regular_right" ELSE "regular_left"
        ELSE "maximum"

\* the branch of the loop body taken for index
Branch(y, par, index) ==
    LET num_vertices == Length(y)
        left_index == index - 1
        right_index == index + 1
    IN  IF ~(left_index >= 0 /\ right_index <= num_vertices - 1)
        THEN "boundary"
        ELSE IF y[left_index] >= y[index] /\ y[index] <= y[right_index]
        THEN IF y[find(par, left_index)] < y[find(par, right_index)]
             THEN "saddle_left" ELSE "saddle_right"
        ELSE IF ~(y[index] > y[left_index] /\ y[index] > y[right_index])
        THEN IF y[find(par, left_index)] < y[find(par, right_index)]
             THEN "regular_right" ELSE "regular_left"
        ELSE "maximum"

\* the parent map after the two find calls of a branch condition
compare_parent(par, left_index, right_index) ==
    find_parent(find_parent(par, left_index), right_index)

\* variant of saddle: the two merges run in the other direction, index into
\* the younger neighbour and the elder neighbour into index
saddle_reversed_merges(y, calc, st, index, younger, elder) ==
    LET left_index == index - 1
        right_index == index + 1
        p0 == compare_parent(st.parent, left_index, right_index)
        rep == find(p0, younger)
    IN  [parent |-> merge(merge(p0, index, younger), elder, index),
         persistence |-> [st.persistence EXCEPT ![rep] = y[rep] - y[index]],
         b |-> IF calc
               THEN Some([st.b[1] EXCEPT ![rep] = <<@[1], y[index]>>])
               ELSE st.b]

\* variant of saddle: the diagram death is written at the younger neighbour
\* itself instead of at its representative
saddle_death_at_neighbour(y, calc, st, index, younger, elder) ==
    LET left_index == index - 1
        right_index == index + 1
        p0 == compare_parent(st.parent, left_index, right_index)
        rep == find(p0, younger)
    IN  [parent |-> merge(merge(p0, younger, index), index, elder),
         persistence |-> [st.persistence EXCEPT ![rep] = y[rep] - y[index]],
         b |-> IF calc
               THEN Some([st.b[1] EXCEPT ![younger] = <<@[1], y[index]>>])
               ELSE st.b]

\* saddle: the younger neighbour's representative is paired with y, then
\* younger -> index -> elder
saddle(y, calc, st, index, younger, elder) ==
    LET left_index == index - 1
        right_index == index + 1
        p0 == compare_parent(st.parent, left_index, right_index)
        rep == find(p0, younger)
    IN  [parent |-> merge(merge(p0, younger, index), index, elder),
         persistence |-> [st.persistence EXCEPT ![rep] = y[rep] - y[index]],
         b |-> IF calc
               THEN Some([st.b[1] EXCEPT ![rep] = <<@[1], y[index]>>])
               ELSE st.b]

\* variant of regular: the neighbour is merged into the point
regular_reversed(st, index, target) ==
    LET p0 == compare_parent(st.parent, index - 1, index + 1)
    IN  [st EXCEPT !.parent = merge(p0, target, index)]

\* variant of regular: the point is left unmerged
regular_no_merge(st, index, target) ==
    [st EXCEPT !.parent = compare_parent(st.parent, index - 1, index + 1)]

\* regular point: merged into the neighbour with the higher representative
regular(st, index, target) ==
    LET p0 == compare_parent(st.parent, index - 1, index + 1)
    IN  [st EXCEPT !.parent = merge(p0, index, target)]

\* variant of sweep_step: a boundary sample is merged into its one neighbour
sweep_step_boundary_merges(y, calc, st, index) ==
    LET br == Branch(y, st.parent, index)
    IN  CASE br = "saddle_left" -> saddle(y, calc, st, index, index - 1, index + 1)
          [] br = "saddle_right" -> saddle(y, calc, st, index, index + 1, index - 1)
          [] br = "regular_right" -> regular(st, index, index + 1)
          [] br = "regular_left" -> regular(st, index, index - 1)
          [] br = "boundary" /\ Length(y) >= 2 ->
                [st EXCEPT !.parent =
                    merge(@, index, IF index = 0 THEN 1 ELSE index - 1)]
          [] OTHER -> st

\* one iteration of the for loop
sweep_step(y, calc, st, index) ==
    LET br == Branch(y, st.parent, index)
    IN  CASE br = "saddle_left" -> saddle(y, calc, st, index, index - 1, index + 1)
          [] br = "saddle_right" -> saddle(y, calc, st, index, index + 1, index - 1)
          [] br = "regular_right" -> regular(st, index, index + 1)
          [] br = "regular_left" -> regular(st, index, index - 1)
          [] OTHER -> st

\* variant of global_maximum: the sweep order is read as ascending
global_maximum_ascending(y, calc, ind, st) ==
    LET num_vertices == Length(y)
    IN  IF num_vertices > 0
        THEN LET global_maximum_index == PyIndex(ind, -1)
                 global_minimum_index == ind[0]
             IN  [st EXCEPT
                    !.persistence =
                        [@ EXCEPT ![global_maximum_index] =
                            y[global_maximum_index] - y[global_minimum_index]],
                    !.b = IF calc
                          THEN Some([@[1] EXCEPT ![global_maximum_index] =
                                        <<@[1], y[global_minimum_index]>>])
                          ELSE @]
        ELSE st

\* the pairing of the global maximum after the loop
global_maximum(y, calc, ind, st) ==
    LET num_vertices == Length(y)
    IN  IF num_vertices > 0
        THEN LET global_maximum_index == ind[0]
                 global_minimum_index == PyIndex(ind, -1)
             IN  [st EXCEPT
                    !.persistence =
                        [@ EXCEPT ![global_maximum_index] =
                            y[global_maximum_index] - y[global_minimum_index]],
                    !.b = IF calc
                          THEN Some([@[1] EXCEPT ![global_maximum_index] =
                                        <<@[1], y[global_minimum_index]>>])
                          ELSE @]
        ELSE st

\* the for loop from position k to the end
RECURSIVE sweep(_, _, _, _, _)
sweep(y, calc, ind, st, k) ==
    IF k >= Length(y)
    THEN st
    ELSE sweep(y, calc, ind, sweep_step(y, calc, st, ind[k]), k + 1)

\* fit_transform without peak filtering, as a function of the y column:
\* the persistence array and the diagram buffer it ends with
transform(y, calc) ==
    LET ind == argsort_desc_stable(y)
    IN  global_maximum(y, calc, ind, sweep(y, calc, ind, init_sweep(calc, y), 0))

\* ---------------------------------------------------------- peak filtering
\* variant of apply_threshold: values equal to the threshold are zeroed too
apply_threshold_inclusive(p, threshold) ==
    [i \in DOMAIN p |-> IF p[i] <= threshold THEN 0 ELSE p[i]]

\* persistence[persistence < threshold] = 0
apply_threshold(p, threshold) ==
    [i \in DOMAIN p |-> IF p[i] < threshold THEN 0 ELSE p[i]]

\* the threshold lookup and the filtering that end the n_peaks block
perform_filtering(p, persistence_values, n_peaks, warned) ==
    IF PyIndexOK(persistence_values, n_peaks - 1)
    THEN [error |-> "None", warnings |-> warned,
          persistence |-> apply_threshold(p, PyIndex(persistence_values, n_peaks - 1))]
    ELSE [error |-> "IndexError", warnings |-> warned, persistence |-> p]

\* the n_peaks block of fit_transform for self._n_peaks = k
filter_peaks(p, k) ==
    LET persistence_values == sorted_reversed(p)
        num_vertices == Length(p)
    IN  IF k = Length(persistence_values)
        THEN perform_filtering(p, persistence_values, k, << >>)
        ELSE IF k > Length(persistence_values)
        THEN perform_filtering(p, persistence_values, num_vertices, <<"fewer_values">>)
        ELSE IF ~(PyIndexOK(persistence_values, k)
                  /\ PyIndexOK(persistence_values, k + 1))
        THEN [error |-> "IndexError", warnings |-> << >>, persistence |-> p]
        ELSE IF PyIndex(persistence_values, k) = PyIndex(persistence_values, k + 1)
        THEN perform_filtering(p, persistence_values, k, <<"duplicate_values">>)
        ELSE perform_filtering(p, persistence_values, k, << >>)

\* variant of vstack_T: the two columns are stacked in the other order
vstack_T_swapped(x, p) == [i \in DOMAIN x |-> <<p[i], x[i]>>]

\* np.vstack((a[:, 0], persistence)).T
vstack_T(x, p) == [i \in DOMAIN x |-> <<x[i], p[i]>>]

\* ------------------------------------------------------------------ inputs
\* x columns the callers pass: ascending positions, or descending ones
XLayouts == {"ascending", "descending"}
XOf(layout, n, i) == IF layout = "ascending" THEN i ELSE n - i

\* arrays np.asarray yields for sequences of minN <= n <= maxN pairs with y
\* in 0..maxY (n = 0 is an empty array with two columns)
PairArrays(minN, maxN, maxY) ==
    UNION {{[shape |-> <<n, 2>>,
             rows |-> [i \in Range0(n) |-> <<XOf(layout, n, i), y[i]>>]]
            : y \in [Range0(n) -> 0 .. maxY], layout \in XLayouts}
           : n \in minN .. maxN}

\* arrays np.asarray yields for [], a scalar, a flat list, rows of three
\* components and a nested list of pairs of pairs
OtherArrays ==
    {[shape |-> s, rows |-> << >>]
        : s \in {<<0>>, << >>, <<2>>, <<1, 3>>, <<1, 2, 2>>}}

\* values of the n_peaks option: None or a positive integer
NPeaksOptions(maxN) == {None} \cup {Some(k) : k \in 1 .. (maxN + 1)}

\* -------------------------------------------------------------- the machine
\* PersistenceTransformer.__init__
InitWith(maxN) ==
    /\ self_calculate_persistence_diagram \in BOOLEAN
    /\ self_n_peaks \in NPeaksOptions(maxN)
    /\ self_persistence_diagram = None
    /\ pc = "idle"
    /\ a = [shape |-> << >>, rows |-> << >>]
    /\ indices = << >>
    /\ b = None
    /\ parent = << >>
    /\ persistence = << >>
    /\ pos = 0
    /\ warnings = << >>
    /\ result = None
    /\ error = "None"
    /\ calls = 0

Init == InitWith(MaxN)
InitReuse == InitWith(MaxReuseN)

\* no call is running
Callable == pc \in {"idle", "returned", "raised"}

\* fit_transform, entry: the shape test fails, RuntimeError
Raise(arr) ==
    /\ Callable
    /\ UnexpectedArrayFormat(arr)
    /\ a' = arr
    /\ pc' = "raised"
    /\ error' = "RuntimeError"
    /\ result' = None
    /\ warnings' = << >>
    /\ indices' = << >>
    /\ b' = None
    /\ parent' = << >>
    /\ persistence' = << >>
    /\ pos' = 0
    /\ calls' = calls + 1
    /\ UNCHANGED <<self_calculate_persistence_diagram, self_n_peaks,
                   self_persistence_diagram>>

\* fit_transform, entry: the shape test passes, locals are set up
Begin(arr) ==
    /\ Callable
    /\ ~UnexpectedArrayFormat(arr)
    /\ a' = arr
    /\ LET st == init_sweep(self_calculate_persistence_diagram, Col1(arr))
       IN  /\ indices' = argsort_desc_stable(Col1(arr))
           /\ b' = st.b
           /\ parent' = st.parent
           /\ persistence' = st.persistence
    /\ pos' = 0
    /\ pc' = "sweep"
    /\ error' = "None"
    /\ result' = None
    /\ warnings' = << >>
    /\ calls' = calls + 1
    /\ UNCHANGED <<self_calculate_persistence_diagram, self_n_peaks,
                   self_persistence_diagram>>

\* one iteration of the for loop, taking branch br
Sweep(br) ==
    /\ pc = "sweep"
    /\ pos < Length(indices)
    /\ Branch(Col1(a), parent, indices[pos]) = br
    /\ LET st == sweep_step(Col1(a), self_calculate_persistence_diagram,
                            [parent |-> parent, persistence |-> persistence,
                             b |-> b],
                            indices[pos])
       IN  /\ parent' = st.parent
           /\ persistence' = st.persistence
           /\ b' = st.b
    /\ pos' = pos + 1
    /\ UNCHANGED <<self_calculate_persistence_diagram, self_n_peaks,
                   self_persistence_diagram, pc, a, indices, warnings, result,
                   error, calls>>

SweepBoundary == Sweep("boundary")
SweepSaddleLeft == Sweep("saddle_left")
SweepSaddleRight == Sweep("saddle_right")
SweepRegularRight == Sweep("regular_right")
SweepRegularLeft == Sweep("regular_left")
SweepMaximum == Sweep("maximum")

\* after the loop: pair the global maximum, publish the diagram
GlobalMaximum ==
    /\ pc = "sweep"
    /\ pos = Length(indices)
    /\ LET st == global_maximum(Col1(a), self_calculate_persistence_diagram,
                                indices,
                                [parent |-> parent, persistence |-> persistence,
                                 b |-> b])
       IN  /\ persistence' = st.persistence
           /\ b' = st.b
           /\ self_persistence_diagram' =
                 IF st.b # None THEN st.b ELSE self_persistence_diagram
    /\ pc' = "filter"
    /\ UNCHANGED <<self_calculate_persistence_diagram, self_n_peaks, a,
                   indices, parent, pos, warnings, result, error, calls>>

\* self._n_peaks is None: return the stacked array
ReturnUnfiltered ==
    /\ pc = "filter"
    /\ self_n_peaks = None
    /\ result' = Some(vstack_T(Col0(a), persistence))
    /\ pc' = "returned"
    /\ UNCHANGED <<self_calculate_persistence_diagram, self_n_peaks,
                   self_persistence_diagram, a, indices, b, parent,
                   persistence, pos, warnings, error, calls>>

\* the n_peaks block runs through: filter and return the stacked array
ReturnFiltered ==
    /\ pc = "filter"
    /\ self_n_peaks # None
    /\ LET out == filter_peaks(persistence, self_n_peaks[1])
       IN  /\ out.error = "None"
           /\ warnings' = out.warnings
           /\ persistence' = out.persistence
           /\ result' = Some(vstack_T(Col0(a), out.persistence))
    /\ pc' = "returned"
    /\ UNCHANGED <<self_calculate_persistence_diagram, self_n_peaks,
                   self_persistence_diagram, a, indices, b, parent, pos,
                   error, calls>>

\* the n_peaks block indexes past the end of persistence_values
FilterRaise ==
    /\ pc = "filter"
    /\ self_n_peaks # None
    /\ LET out == filter_peaks(persistence, self_n_peaks[1])
       IN  /\ out.error # "None"
           /\ warnings' = out.warnings
           /\ error' = out.error
    /\ pc' = "raised"
    /\ UNCHANGED <<self_calculate_persistence_diagram, self_n_peaks,
                   self_persistence_diagram, a, indices, b, parent,
                   persistence, pos, result, calls>>

\* the steps of a running call
Run ==
    \/ SweepBoundary
    \/ SweepSaddleLeft
    \/ SweepSaddleRight
    \/ SweepRegularRight
    \/ SweepRegularLeft
    \/ SweepMaximum
    \/ GlobalMaximum
    \/ ReturnUnfiltered
    \/ ReturnFiltered
    \/ FilterRaise

\* a call with an argument the shape test rejects
CallMalformed(maxCalls) ==
    /\ calls < maxCalls
    /\ \E arr \in OtherArrays : Raise(arr)

\* a call with an array of minN..maxN pairs
CallPairs(maxCalls, minN, maxN, maxY) ==
    /\ calls < maxCalls
    /\ \E arr \in PairArrays(minN, maxN, maxY) : Begin(arr)

\* a fresh instance, called once
Next ==
    \/ CallMalformed(1)
    \/ CallPairs(1, 0, MaxN, MaxY)
    \/ Run

Spec == Init /\ [][Next]_vars

\* one instance, called repeatedly
NextReuse ==
    \/ CallMalformed(MaxCalls)
    \/ CallPairs(MaxCalls, 1, MaxReuseN, MaxReuseY)
    \/ Run

SpecReuse == InitReuse /\ [][NextReuse]_vars

\* the array np.asarray yields for n pairs with y column y and x layout
PairArray(n, layout, y) ==
    [shape |-> <<n, 2>>,
     rows |-> [i \in Range0(n) |-> <<XOf(layout, n, i), y[i]>>]]

\* a fresh instance without n_peaks
InitDistinct == InitWith(0) /\ self_n_peaks = None

\* a call with 1..MaxDistinctN pairs of pairwise distinct y in 0..MaxDistinctN
CallDistinct ==
    /\ calls < 1
    /\ \E n \in 1 .. MaxDistinctN :
          \E y \in [Range0(n) -> 0 .. MaxDistinctN] :
             \E layout \in XLayouts :
                /\ \A i, j \in Range0(n) : i # j => y[i] # y[j]
                /\ Begin(PairArray(n, layout, y))

\* a fresh instance without n_peaks, called once on distinct values
NextDistinct ==
    \/ CallDistinct
    \/ SweepBoundary
    \/ SweepSaddleLeft
    \/ SweepSaddleRight
    \/ SweepRegularRight
    \/ SweepRegularLeft
    \/ SweepMaximum
    \/ GlobalMaximum
    \/ ReturnUnfiltered

SpecDistinct == InitDistinct /\ [][NextDistinct]_vars

\* a UnionFind instance on its own, as exported by the package
InitUF ==
    /\ self_calculate_persistence_diagram = FALSE
    /\ self_n_peaks = None
    /\ self_persistence_diagram = None
    /\ pc = "uf"
    /\ a = [shape |-> << >>, rows |-> << >>]
    /\ indices = << >>
    /\ b = None
    /\ \E num_vertices \in 1 .. MaxVertices : parent = UnionFind(num_vertices)
    /\ persistence = << >>
    /\ pos = 0
    /\ warnings = << >>
    /\ result = None
    /\ error = "None"
    /\ calls = 0

\* uf.find(u)
UFFind ==
    /\ pc = "uf"
    /\ \E u \in DOMAIN parent : parent' = find_parent(parent, u)
    /\ UNCHANGED <<self_calculate_persistence_diagram, self_n_peaks,
                   self_persistence_diagram, pc, a, indices, b, persistence,
                   pos, warnings, result, error, calls>>

\* uf.merge(u, v)
UFMerge ==
    /\ pc = "uf"
    /\ \E u, v \in DOMAIN parent : parent' = merge(parent, u, v)
    /\ UNCHANGED <<self_calculate_persistence_diagram, self_n_peaks,
                   self_persistence_diagram, pc, a, indices, b, persistence,
                   pos, warnings, result, error, calls>>

NextUF == UFFind \/ UFMerge

SpecUF == InitUF /\ [][NextUF]_vars

\* ================================================================== claims
\* the running (or last) call passed the shape test
ValidCall == calls >= 1 /\ ~UnexpectedArrayFormat(a)
\* number of samples and y column of a valid call
N == Length(a.rows)
Ys == Col1(a)

Max(y) == CHOOSE v \in {y[i] : i \in DOMAIN y} : \A j \in DOMAIN y : y[j] <= v
Min(y) == CHOOSE v \in {y[i] : i \in DOMAIN y} : \A j \in DOMAIN y : y[j] >= v
\* the left-most sample of maximal value
LeftmostMax(y) ==
    CHOOSE i \in DOMAIN y :
        y[i] = Max(y) /\ \A j \in DOMAIN y : y[j] = Max(y) => i <= j

\* the m-th largest entry of p, 1 <= m <= number of entries
KthLargest(p, m) ==
    CHOOSE v \in {p[i] : i \in DOMAIN p} :
        /\ Cardinality({i \in DOMAIN p : p[i] > v}) < m
        /\ m <= Cardinality({i \in DOMAIN p : p[i] >= v})

\* the non-zero entries of p as a bag: value |-> multiplicity
NonZeroBag(p) ==
    [v \in {p[i] : i \in DOMAIN p} \ {0} |->
        Cardinality({i \in DOMAIN p : p[i] = v})]

\* y with the value v inserted directly after position i
InsertAfter(y, i, v) ==
    [j \in Range0(Length(y) + 1) |->
        IF j <= i THEN y[j] ELSE IF j = i + 1 THEN v ELSE y[j - 1]]

\* v lies strictly between lo and hi, in either order
StrictlyBetween(v, lo, hi) == (lo < v /\ v < hi) \/ (hi < v /\ v < lo)

\* C1: peak-count filtering never aborts: a call with a valid non-empty
\* input and any positive n_peaks raises no error.
C1_FilteringNeverAborts ==
    (ValidCall /\ N >= 1 /\ self_n_peaks # None) => error = "None"

\* the warning cases C2 states for n_peaks = k on the unfiltered array p
WarningExpected(p, k) ==
    \/ k > Length(p)
    \/ /\ k < Length(p)
       /\ KthLargest(p, k) = KthLargest(p, k + 1)

\* C2: a returning filtered call warns exactly when k > N, or k < N and the
\* k-th and (k+1)-th largest persistence values are equal.
C2_WarningExactly ==
    [][(pc = "filter" /\ pc' = "returned" /\ self_n_peaks # None)
          => ((warnings' # << >>) <=> WarningExpected(persistence, self_n_peaks[1]))]_vars

\* C3: after every call on a reused instance the exposed diagram is the one
\* the call itself built (absent if it built none, as when validation fails
\* or diagram mode is off).
C3_DiagramBelongsToCall ==
    (pc \in {"returned", "raised"}) => self_persistence_diagram = b

\* an empty sequence, or not a sequence of 2-component pairs
EmptyOrMalformed(arr) ==
    IF UnexpectedArrayFormat(arr) THEN TRUE ELSE arr.shape[1] = 0

\* C4: a call on an empty sequence or on a malformed input fails with
\* RuntimeError before anything is computed and returns no result.
C4_EmptyInputFails ==
    (calls >= 1 /\ EmptyOrMalformed(a))
        => (pc = "raised" /\ error = "RuntimeError" /\ result = None)

\* C5: in every returned output of a non-empty input the left-most sample of
\* maximal value has persistence max - min, and in diagram mode its diagram
\* entry is (max, min).
C5_GlobalMaximumPersistence ==
    (pc = "returned" /\ N >= 1) =>
        LET g == LeftmostMax(Ys)
        IN  /\ result[1][g][2] = Max(Ys) - Min(Ys)
            /\ self_calculate_persistence_diagram =>
                  /\ self_persistence_diagram # None
                  /\ self_persistence_diagram[1][g] = <<Max(Ys), Min(Ys)>>

\* C5 witness: a filtered diagram-mode call returned, a feature was zeroed
\* by the filter and the range of the input is positive
C5_Witness ==
    /\ pc = "returned" /\ N >= 3
    /\ self_n_peaks # None /\ self_calculate_persistence_diagram
    /\ self_n_peaks[1] < N
    /\ Max(Ys) > Min(Ys)
    /\ \E i \in DOMAIN Ys :
          /\ result[1][i][2] = 0
          /\ self_persistence_diagram[1][i][1] > self_persistence_diagram[1][i][2]
    /\ result[1][LeftmostMax(Ys)][2] > 0

\* C6: a returning call with n_peaks = k keeps every value >= t and zeroes
\* every value < t, t the min(k, N)-th largest unfiltered value; for k >= N
\* the array is returned unfiltered.
C6_FilterThreshold ==
    [][(pc = "filter" /\ pc' = "returned" /\ self_n_peaks # None) =>
          LET k == self_n_peaks[1]
              m == IF k < N THEN k ELSE N
              t == KthLargest(persistence, m)
          IN  /\ \A i \in DOMAIN persistence :
                    /\ persistence'[i] =
                          IF persistence[i] >= t THEN persistence[i] ELSE 0
                    /\ result'[1][i][2] = persistence'[i]
              /\ k >= N => persistence' = persistence]_vars

\* C6 witness: a filtered call with k < N returned, one feature was zeroed
\* (its diagram entry still shows it) and another one was kept
C6_Witness ==
    /\ pc = "returned" /\ self_n_peaks # None /\ self_n_peaks[1] < N
    /\ self_calculate_persistence_diagram
    /\ \E i, j \in DOMAIN Ys :
          /\ result[1][i][2] = 0
          /\ self_persistence_diagram[1][i][1] - self_persistence_diagram[1][i][2] > 0
          /\ result[1][j][2] > 0

\* C7: in diagram mode without filtering the diagram has one entry per
\* sample, in sample order, with birth y_i and birth - death equal to the
\* returned persistence of sample i.
C7_DiagramMatchesPersistence ==
    (pc = "returned" /\ self_calculate_persistence_diagram /\ self_n_peaks = None) =>
        /\ self_persistence_diagram # None
        /\ DOMAIN self_persistence_diagram[1] = Range0(N)
        /\ \A i \in Range0(N) :
              /\ self_persistence_diagram[1][i][1] = Ys[i]
              /\ self_persistence_diagram[1][i][1] - self_persistence_diagram[1][i][2]
                    = result[1][i][2]

\* C7 witness: an unfiltered diagram-mode call returned with a feature other
\* than the global maximum
C7_Witness ==
    /\ pc = "returned" /\ self_calculate_persistence_diagram /\ self_n_peaks = None
    /\ N >= 3
    /\ \E i \in Range0(N) : i # LeftmostMax(Ys) /\ result[1][i][2] > 0

\* C8: a returned output of N >= 1 pairs has N rows, the input x values in
\* input order, and no negative persistence.
C8_OutputShape ==
    (pc = "returned" /\ N >= 1) =>
        /\ result # None
        /\ DOMAIN result[1] = Range0(N)
        /\ \A i \in Range0(N) :
              /\ result[1][i][1] = a.rows[i][1]
              /\ result[1][i][2] >= 0

\* C8 witness: a call returned for descending x values with two features
C8_Witness ==
    /\ pc = "returned" /\ N >= 3
    /\ a.rows[0][1] > a.rows[1][1]
    /\ \E i, j \in Range0(N) : i # j /\ result[1][i][2] > 0 /\ result[1][j][2] > 0

\* C9: inserting between two consecutive samples a value strictly between
\* theirs leaves the bag of non-zero persistence values, and the total
\* persistence of the diagram, unchanged.
C9_RegularInsertion ==
    (pc = "returned" /\ self_n_peaks = None) =>
        \A i \in Range0(N - 1) : \A v \in 0 .. MaxY :
            StrictlyBetween(v, Ys[i], Ys[i + 1]) =>
                LET t2 == transform(InsertAfter(Ys, i, v),
                                    self_calculate_persistence_diagram)
                IN  /\ NonZeroBag(t2.persistence) = NonZeroBag(persistence)
                    /\ self_calculate_persistence_diagram =>
                          total_persistence(t2.b[1])
                             = total_persistence(self_persistence_diagram[1])

\* C9 witness: an unfiltered call returned with two features and a gap
\* between consecutive samples that admits an insertion
C9_Witness ==
    /\ pc = "returned" /\ self_n_peaks = None /\ N >= 3
    /\ \E i \in Range0(N - 1) : \E v \in 0 .. MaxY :
          StrictlyBetween(v, Ys[i], Ys[i + 1])
    /\ \E i, j \in Range0(N) : i # j /\ persistence[i] > 0 /\ persistence[j] > 0

\* C10: repeating a sample directly after itself leaves the bag of non-zero
\* persistence values, and the total persistence of the diagram, unchanged.
C10_PlateauInsertion ==
    (pc = "returned" /\ self_n_peaks = None) =>
        \A i \in Range0(N) :
            LET t2 == transform(InsertAfter(Ys, i, Ys[i]),
                                self_calculate_persistence_diagram)
            IN  /\ NonZeroBag(t2.persistence) = NonZeroBag(persistence)
                /\ self_calculate_persistence_diagram =>
                      total_persistence(t2.b[1])
                         = total_persistence(self_persistence_diagram[1])

\* C10 witness: an unfiltered call returned with an interior peak, an
\* interior minimum and two features
C10_Witness ==
    /\ pc = "returned" /\ self_n_peaks = None /\ N >= 4
    /\ \E i \in 1 .. (N - 2) : Ys[i] > Ys[i - 1] /\ Ys[i] > Ys[i + 1]
    /\ \E i \in 1 .. (N - 2) : Ys[i] < Ys[i - 1] /\ Ys[i] < Ys[i + 1]
    /\ \E i, j \in Range0(N) : i # j /\ persistence[i] > 0 /\ persistence[j] > 0

\* sample i is higher than each neighbour it has
LocalMaximum(y, i) ==
    /\ (i - 1) \in DOMAIN y => y[i] > y[i - 1]
    /\ (i + 1) \in DOMAIN y => y[i] > y[i + 1]

\* the samples on side d (-1 left, 1 right) of i that are higher than y[i]
HigherOnSide(y, i, d) == {j \in DOMAIN y : (j - i) * d > 0 /\ y[j] > y[i]}

\* the lowest value strictly between i and the nearest higher sample on side d
SideMinimum(y, i, d) ==
    LET near == CHOOSE j \in HigherOnSide(y, i, d) :
                    \A k \in HigherOnSide(y, i, d) : (j - i) * d <= (k - i) * d
        between == {y[k] : k \in {k \in DOMAIN y :
                                    (k - i) * d > 0 /\ (near - k) * d > 0}}
    IN  CHOOSE m \in between : \A v \in between : m <= v

\* the reference prominence of sample i in a sequence of distinct values
Prominence(y, i) ==
    IF i = LeftmostMax(y) THEN Max(y) - Min(y)
    ELSE IF ~LocalMaximum(y, i) THEN 0
    ELSE LET sides == {SideMinimum(y, i, d) :
                          d \in {d \in {0 - 1, 1} : HigherOnSide(y, i, d) # {}}}
         IN  y[i] - (CHOOSE m \in sides : \A v \in sides : v <= m)

Distinct(y) == \A i, j \in DOMAIN y : i # j => y[i] # y[j]

\* C11: for pairwise distinct values and no filtering the returned
\* persistence of every sample is its reference prominence.
C11_Prominence ==
    (pc = "returned" /\ self_n_peaks = None /\ Distinct(Ys)) =>
        \A i \in Range0(N) : result[1][i][2] = Prominence(Ys, i)

\* C11 witness: a call on distinct values returned with an interior and a
\* boundary local maximum besides the global maximum, each with a feature
C11_Witness ==
    /\ pc = "returned" /\ self_n_peaks = None /\ Distinct(Ys) /\ N >= 5
    /\ \E i \in 1 .. (N - 2) :
          i # LeftmostMax(Ys) /\ LocalMaximum(Ys, i) /\ result[1][i][2] > 0
    /\ \E i \in {0, N - 1} :
          i # LeftmostMax(Ys) /\ LocalMaximum(Ys, i) /\ result[1][i][2] > 0

\* the first and the last position of the running call's sequence
BoundaryPositions == {0, N - 1} \cap Range0(N)

\* a step that processes a boundary sample leaves the union-find structure,
\* the persistence array and the diagram buffer as they were
BoundaryStepIdle ==
    (pc = "sweep" /\ pos < N /\ indices[pos] \in BoundaryPositions)
        => (parent' = parent /\ persistence' = persistence /\ b' = b)

\* C12: processing a boundary sample performs no merge and no write, and in
\* an unfiltered output a boundary sample below the global maximum has
\* persistence 0.
C12_BoundaryOnlyGlobalExtremum ==
    [][/\ BoundaryStepIdle
       /\ (pc = "filter" /\ pc' = "returned" /\ self_n_peaks = None) =>
              \A i \in BoundaryPositions :
                  Ys[i] < Max(Ys) => result'[1][i][2] = 0]_vars

\* the neighbour of boundary position i is strictly higher than i
BelowNeighbour(y, i) ==
    /\ Length(y) >= 2
    /\ y[i] < y[IF i = 0 THEN 1 ELSE i - 1]

\* C12 amended: processing a boundary sample performs no merge and no write,
\* and in an unfiltered output a boundary sample strictly below its
\* neighbour has persistence 0 (a boundary sample at least as high as its
\* neighbour can be paired by a saddle step of another index).
C12_BoundaryBelowNeighbour ==
    [][/\ BoundaryStepIdle
       /\ (pc = "filter" /\ pc' = "returned" /\ self_n_peaks = None) =>
              \A i \in BoundaryPositions :
                  BelowNeighbour(Ys, i) => result'[1][i][2] = 0]_vars

\* C12 witness: an unfiltered call returned; the first sample is below its
\* neighbour and has persistence 0, the last one is a local maximum below
\* the global maximum and has a positive persistence
C12_Witness ==
    /\ pc = "returned" /\ self_n_peaks = None /\ N >= 4
    /\ BelowNeighbour(Ys, 0) /\ result[1][0][2] = 0
    /\ Ys[N - 1] < Max(Ys) /\ Ys[N - 1] > Ys[N - 2]
    /\ result[1][N - 1][2] > 0

\* position i is interior and no higher than either neighbour
SaddlePosition(y, i) ==
    /\ i >= 1 /\ i <= Length(y) - 2
    /\ y[i - 1] >= y[i] /\ y[i] <= y[i + 1]

\* C13: a saddle step at index i pairs the representative r of the neighbour
\* component with the strictly lower representative height (the right one
\* on equal heights): r gets persistence y_r - y_i and, in diagram mode,
\* death y_i; nothing else is written; afterwards the left neighbour, i and
\* the right neighbour resolve to the elder component's old representative.
C13_SaddleStep ==
    [][(pc = "sweep" /\ pos < N /\ SaddlePosition(Ys, indices[pos])) =>
          LET i == indices[pos]
              L == find(parent, i - 1)
              R == find(parent, i + 1)
              r == IF Ys[L] < Ys[R] THEN L ELSE R
              e == IF Ys[L] < Ys[R] THEN R ELSE L
          IN  /\ persistence' = [persistence EXCEPT ![r] = Ys[r] - Ys[i]]
              /\ b' = IF self_calculate_persistence_diagram
                      THEN Some([b[1] EXCEPT ![r] = <<Ys[r], Ys[i]>>])
                      ELSE None
              /\ find(parent', i - 1) = e
              /\ find(parent', i) = e
              /\ find(parent', i + 1) = e]_vars

\* C13 witness: in diagram mode the index just processed was a saddle whose
\* two neighbour components had different representative heights; the lower
\* one is paired with the saddle height and all three positions are merged
C13_Witness ==
    /\ pc = "sweep" /\ pos >= 1 /\ N >= 4
    /\ self_calculate_persistence_diagram
    /\ LET i == indices[pos - 1]
       IN  /\ SaddlePosition(Ys, i)
           /\ find(parent, i - 1) = find(parent, i)
           /\ find(parent, i + 1) = find(parent, i)
           /\ \E r \in Range0(N) :
                 /\ r # find(parent, i)
                 /\ persistence[r] = Ys[r] - Ys[i] /\ persistence[r] > 0
                 /\ b[1][r] = <<Ys[r], Ys[i]>>

\* the vertex reached from w after k parent links
RECURSIVE Walk(_, _, _)
Walk(par, w, k) == IF k = 0 THEN w ELSE Walk(par, par[w], k - 1)

\* the representative of w: where the parent links end
Rep(par, w) == Walk(par, w, Length(par))

\* the vertices find(u) visits
Visited(par, u) == {Walk(par, u, k) : k \in 0 .. Length(par)}

\* what C14 states about a call merge(u, v) that turns par into par2
MergePost(par, par2, u, v) ==
    IF u = v
    THEN par2 = par
    ELSE \A w \in DOMAIN par :
            Rep(par2, w) = IF Rep(par, w) \in {Rep(par, u), Rep(par, v)}
                           THEN Rep(par, v)
                           ELSE Rep(par, w)

\* what C14 states about a call find(u) that turns par into par2
FindPost(par, par2, u) ==
    /\ find(par, u) = Rep(par, u)
    /\ \A w \in DOMAIN par : Rep(par2, w) = Rep(par, w)
    /\ \A w \in Visited(par, u) : par2[w] = Rep(par, u)

\* C14: merge(u, v) with u # v makes every vertex of u's and of v's
\* component resolve to the representative v's component had, leaves all
\* other representatives alone, and merge(u, u) changes nothing; find(u)
\* changes no representative and leaves every visited vertex pointing at the
\* root.
C14_DirectionalMerge ==
    [][pc = "uf" =>
          \A u, v \in DOMAIN parent :
              /\ parent' = merge(parent, u, v) => MergePost(parent, parent', u, v)
              /\ parent' = find_parent(parent, u) => FindPost(parent, parent', u)]_vars

\* C14 witness: after several merges there are two components, one of them
\* with a vertex two links away from its representative
C14_Witness ==
    /\ pc = "uf" /\ Length(parent) >= 4
    /\ \E w \in DOMAIN parent :
          parent[w] # w /\ parent[parent[w]] # parent[w]
    /\ \E w, x \in DOMAIN parent : Rep(parent, w) # Rep(parent, x)

\* every chain of parent links ends in a vertex that is its own parent
AcyclicForest(par) == \A w \in DOMAIN par : par[Rep(par, w)] = Rep(par, w)

\* every component is a run of consecutive positions
ContiguousComponents(par) ==
    \A i, j, k \in DOMAIN par :
        (i < k /\ k < j /\ Rep(par, i) = Rep(par, j)) => Rep(par, k) = Rep(par, i)

\* C15: after every processed index of a valid call the parent map is an
\* acyclic forest, its components are runs of consecutive positions, and
\* the representative of every sample is at least as high as the sample.
C15_ForestOfRuns ==
    ValidCall =>
        /\ DOMAIN parent = Range0(N)
        /\ AcyclicForest(parent)
        /\ ContiguousComponents(parent)
        /\ \A i \in Range0(N) : Ys[find(parent, i)] >= Ys[i]

\* C15 witness: in the middle of a sweep over a sequence with a plateau and
\* a boundary sample that was merged, one component has three members and
\* another component exists
C15_Witness ==
    /\ ValidCall /\ pc = "sweep" /\ pos >= 1 /\ pos < N /\ N >= 4
    /\ \E i \in Range0(N - 1) : Ys[i] = Ys[i + 1]
    /\ \E i \in {0, N - 1} : parent[i] # i
    /\ \E i \in Range0(N) :
          Cardinality({j \in Range0(N) : Rep(parent, j) = Rep(parent, i)}) >= 3
    /\ \E i, j \in Range0(N) : Rep(parent, i) # Rep(parent, j)
====
